---- MODULE Spec2Model ----
(***************************************************************************)
(* Model of scanimate: the grid construction and compositing of main() in  *)
(* scanimate/scanimate.py, the same steps of the __main__ script of        *)
(* scanimate/moire.py, and the Moire class of scanimate/moire.py and       *)
(* core/moire.py.                                                          *)
(*                                                                         *)
(* Arrays are functions over 0-based index ranges, nested in numpy's axis  *)
(* order: a frame stack is [frame][row][column][channel].  The value of    *)
(* args.stripewidth is the integer that range() and the slice step         *)
(* compute with.                                                           *)
(***************************************************************************)
EXTENDS Integers, Sequences, FiniteSets, TLC

VARIABLES pc, args, img, grid, res, files, glob, moire, call

vars == <<pc, args, img, grid, res, files, glob, moire, call>>

(***************************************************************************)
(* Bounds of the model.                                                    *)
(***************************************************************************)
MaxFrames == 3
MaxDim == 4
MaxStripe == 2
MaxMoireFrames == 3
MaxMoireStripe == 2
MaxReplications == 2
MaxStackLen == 6

(***************************************************************************)
(* Values of the program.                                                  *)
(***************************************************************************)
Opaque == 255
Byte == 256
DefaultReplications == 24
ScriptStripeWidth == 1
ScriptDownsample == 2
ScriptNumFrames == 5
CoreScriptNumFrames == 6

Channels == {1, 3, 4}
Patterns == {"hgrid", "vgrid", "dgrid"}
StripeWidths == {-1, 0} \cup (1..MaxStripe)
Downsamples == {0, 1, 2}

(***************************************************************************)
(* Array helpers (numpy).                                                  *)
(***************************************************************************)
Size(a) == Cardinality(DOMAIN a)

Idx(n) == 0 .. (n - 1)

\* np.zeros_like(a) for a 4-axis stack
ZerosLike(a) ==
    [k \in DOMAIN a |-> [r \in DOMAIN a[k] |-> [c \in DOMAIN a[k][r] |->
        [ch \in DOMAIN a[k][r][c] |-> 0]]]]

\* index j of an axis of length n is selected by the slice start::step
\* (start >= 0, step > 0)
InSlice(j, start, step, n) ==
    j \in Idx(n) /\ j >= start /\ (j - start) % step = 0

\* the indices a slice start::step selects on an axis of length n
SliceFrom(start, step, n) == {j \in Idx(n) : InSlice(j, start, step, n)}

\* a[0::d] on the frame axis
Subsample(a, d) ==
    LET picked == SliceFrom(0, d, Size(a))
    IN  [k \in Idx(Cardinality(picked)) |-> a[k * d]]

\* Roll with the axis ignored: every roll shifts the columns
Roll_ColumnsOnly(g, shift, axis) ==
    LET w == Size(g[0])
    IN  [r \in DOMAIN g |-> [c \in DOMAIN g[r] |-> g[r][(c - shift) % w]]]

\* Roll with the shift taken the other way
Roll_Backwards(g, shift, axis) ==
    LET h == Size(g)
        w == Size(g[0])
    IN  IF axis = 1
        THEN [r \in DOMAIN g |-> [c \in DOMAIN g[r] |-> g[r][(c + shift) % w]]]
        ELSE [r \in DOMAIN g |-> g[(r + shift) % h]]

\* np.roll(g, shift, axis) of one grid g[row][column][channel]
Roll(g, shift, axis) ==
    LET h == Size(g)
        w == Size(g[0])
    IN  IF axis = 1
        THEN [r \in DOMAIN g |-> [c \in DOMAIN g[r] |-> g[r][(c - shift) % w]]]
        ELSE [r \in DOMAIN g |-> g[(r - shift) % h]]

(***************************************************************************)
(* The decoded GIF: every frame is filled with one value in every channel. *)
(* In a "ramp" stack frame k holds 10*(k+1) (10, 20, 30, ...: pairwise     *)
(* distinct frames); in a "bright" stack every frame holds 200 (two        *)
(* overlapping frames sum above 255).                                      *)
(***************************************************************************)
ConstStack(n, h, w, c, fill) ==
    [k \in Idx(n) |-> [r \in Idx(h) |-> [col \in Idx(w) |-> [ch \in Idx(c) |-> fill[k]]]]]

FillValue(kind, n) == [k \in Idx(n) |-> IF kind = "bright" THEN 200 ELSE 10 * (k + 1)]

ExampleStack == ConstStack(3, 12, 12, 1, FillValue("ramp", 3))

Gifs ==
    {ConstStack(t[1], t[2], t[3], t[4], FillValue(t[5], t[1])) :
        t \in (1..MaxFrames) \X (1..MaxDim) \X (1..MaxDim) \X Channels
                \X {"ramp", "bright"}}
    \cup {ExampleStack}

(***************************************************************************)
(* main(), scanimate/scanimate.py                                          *)
(***************************************************************************)
Init ==
    /\ pc = "start"
    /\ args = [pattern |-> "hgrid", stripewidth |-> 1,
               paths_exist |-> TRUE, single_gif |-> TRUE]
    /\ img = << >>
    /\ grid = << >>
    /\ res = << >>
    /\ files = << >>
    /\ glob = [bound |-> FALSE, num_frames |-> 0]
    /\ moire = [state |-> "none"]
    /\ call = [len |-> 0, result |-> "none"]

\* lines 46-47: the parsed options, and what lines 52 and 60 will find of
\* the image_source paths
ParseArgs ==
    /\ pc = "start"
    /\ \E p \in Patterns, sw \in StripeWidths, e \in BOOLEAN, g \in BOOLEAN :
        args' = [pattern |-> p, stripewidth |-> sw, paths_exist |-> e, single_gif |-> g]
    /\ pc' = "parsed"
    /\ UNCHANGED <<img, grid, res, files, glob, moire, call>>

\* lines 52, 154-155: a path does not exist; the IOError is built, not raised
InvalidPath ==
    /\ pc = "parsed"
    /\ ~args.paths_exist
    /\ pc' = "returned_invalid_path"
    /\ UNCHANGED <<args, img, grid, res, files, glob, moire, call>>

\* lines 60, 151-153: the source is not a single GIF
NotGif ==
    /\ pc = "parsed"
    /\ args.paths_exist
    /\ ~args.single_gif
    /\ pc' = "returned_not_gif"
    /\ UNCHANGED <<args, img, grid, res, files, glob, moire, call>>

\* lines 62-69: read the GIF, subsample its frames, allocate the grid
LoadGif ==
    /\ pc = "parsed"
    /\ args.paths_exist
    /\ args.single_gif
    /\ \E gif \in Gifs, d \in Downsamples :
        IF d = 0
        THEN /\ pc' = "raised_ValueError"
             /\ UNCHANGED <<img, grid>>
        ELSE /\ img' = Subsample(gif, d)
             /\ grid' = ZerosLike(Subsample(gif, d))
             /\ pc' = "loaded"
    /\ UNCHANGED <<args, res, files, glob, moire, call>>

\* SetStripe with every slice started at 0, whatever i
SetStripe_StartZero(g, pattern, i, step) ==
    [k \in DOMAIN g |-> [r \in DOMAIN g[k] |-> [c \in DOMAIN g[k][r] |->
        [ch \in DOMAIN g[k][r][c] |->
            IF pattern = "hgrid"
            THEN IF InSlice(c, 0, step, Size(g[k][r])) THEN 1 ELSE g[k][r][c][ch]
            ELSE IF InSlice(r, 0, step, Size(g[k])) THEN 1 ELSE g[k][r][c][ch]]]]]

\* lines 79-80 (hgrid), 88-89 (vgrid): grid[:,:,i::step,:] = 1 or
\* grid[:,i::step,:,:] = 1
SetStripe(g, pattern, i, step) ==
    [k \in DOMAIN g |-> [r \in DOMAIN g[k] |-> [c \in DOMAIN g[k][r] |->
        [ch \in DOMAIN g[k][r][c] |->
            IF pattern = "hgrid"
            THEN IF InSlice(c, i, step, Size(g[k][r])) THEN 1 ELSE g[k][r][c][ch]
            ELSE IF InSlice(r, i, step, Size(g[k])) THEN 1 ELSE g[k][r][c][ch]]]]]

\* StripeLoop with the slice step img.shape[0], without the stripe width
RECURSIVE StripeLoop_StepNumFrames(_, _, _, _, _)
StripeLoop_StepNumFrames(g, pattern, i, stripewidth, nframes) ==
    IF i >= stripewidth
    THEN g
    ELSE StripeLoop_StepNumFrames(SetStripe(g, pattern, i, nframes),
                                  pattern, i + 1, stripewidth, nframes)

\* for i in range(stripewidth): the iterations from i on
RECURSIVE StripeLoop(_, _, _, _, _)
StripeLoop(g, pattern, i, stripewidth, nframes) ==
    IF i >= stripewidth
    THEN g
    ELSE StripeLoop(SetStripe(g, pattern, i, nframes * stripewidth),
                    pattern, i + 1, stripewidth, nframes)

\* RollLoop with grid i rolled by i, without the stripe width
RollLoop_ShiftByIndex(g, pattern, stripewidth) ==
    [k \in DOMAIN g |->
        IF k = 0
        THEN g[k]
        ELSE Roll(g[k], k, IF pattern = "hgrid" THEN 1 ELSE 0)]

\* lines 83-84, 92-93: for i in range(1, len(grid)): grid[i] = np.roll(...)
RollLoop(g, pattern, stripewidth) ==
    [k \in DOMAIN g |->
        IF k = 0
        THEN g[k]
        ELSE Roll(g[k], k * stripewidth, IF pattern = "hgrid" THEN 1 ELSE 0)]

\* line 95: grid[:,:,:,-1] = 1
SetLastChannel(g) ==
    [k \in DOMAIN g |-> [r \in DOMAIN g[k] |-> [c \in DOMAIN g[k][r] |->
        [ch \in DOMAIN g[k][r][c] |->
            IF ch = Size(g[k][r][c]) - 1 THEN 1 ELSE g[k][r][c][ch]]]]]

\* Multiply without the mask
Multiply_Unmasked(a, g) == a

\* line 98: img.astype(float32) * grid.astype(float32)
Multiply(a, g) ==
    [k \in DOMAIN a |-> [r \in DOMAIN a[k] |-> [c \in DOMAIN a[k][r] |->
        [ch \in DOMAIN a[k][r][c] |-> a[k][r][c][ch] * g[k][r][c][ch]]]]]

RECURSIVE SumUpTo(_, _, _, _, _)
SumUpTo(a, k, r, c, ch) ==
    IF k < 0 THEN 0 ELSE a[k][r][c][ch] + SumUpTo(a, k - 1, r, c, ch)

\* line 101: np.sum(res, axis=0)
SumFrames(a) ==
    [r \in DOMAIN a[0] |-> [c \in DOMAIN a[0][r] |->
        [ch \in DOMAIN a[0][r][c] |-> SumUpTo(a, Size(a) - 1, r, c, ch)]]]

\* ForceAlpha left out
ForceAlpha_Skipped(x) == x

\* line 102: res[:,:,-1] = 255.
ForceAlpha(x) ==
    [r \in DOMAIN x |-> [c \in DOMAIN x[r] |->
        [ch \in DOMAIN x[r][c] |->
            IF ch = Size(x[r][c]) - 1 THEN Opaque ELSE x[r][c][ch]]]]

\* line 103: a float32 value cast to np.uint8.  A value the type holds is
\* kept; the cast of a larger one is undefined in C: builds wrap it modulo
\* 256 or saturate it.
CastUint8(v, mode) ==
    IF v < Byte THEN v ELSE IF mode = "wrap" THEN v % Byte ELSE Byte - 1

AsTypeUint8(x, mode) ==
    [r \in DOMAIN x |-> [c \in DOMAIN x[r] |->
        [ch \in DOMAIN x[r][c] |-> CastUint8(x[r][c][ch], mode)]]]

\* lines 133, 147: (255*grid[0]).astype(np.uint8), uint8 arithmetic
PatternImage(g) ==
    [r \in DOMAIN g[0] |-> [c \in DOMAIN g[0][r] |->
        [ch \in DOMAIN g[0][r][c] |-> (Opaque * g[0][r][c][ch]) % Byte]]]

\* lines 77-80, 86-89: the stripes of the base grid, in every frame
Stripe ==
    /\ pc = "loaded"
    /\ grid' = IF args.pattern \in {"hgrid", "vgrid"}
               THEN StripeLoop(grid, args.pattern, 0, args.stripewidth, Size(img))
               ELSE grid
    /\ pc' = "striped"
    /\ UNCHANGED <<args, img, res, files, glob, moire, call>>

\* lines 83-84, 92-93: grid k is rolled by k stripe widths
RollGrids ==
    /\ pc = "striped"
    /\ grid' = IF args.pattern \in {"hgrid", "vgrid"}
               THEN RollLoop(grid, args.pattern, args.stripewidth)
               ELSE grid
    /\ pc' = "rolled"
    /\ UNCHANGED <<args, img, res, files, glob, moire, call>>

\* line 95
AlphaGrid ==
    /\ pc = "rolled"
    /\ grid' = SetLastChannel(grid)
    /\ pc' = "grid_done"
    /\ UNCHANGED <<args, img, res, files, glob, moire, call>>

\* lines 98-102: mask, sum over the frames, force the last channel
Composite ==
    /\ pc = "grid_done"
    /\ res' = ForceAlpha(SumFrames(Multiply(img, grid)))
    /\ pc' = "summed"
    /\ UNCHANGED <<args, img, grid, files, glob, moire, call>>

\* line 103
Narrow ==
    /\ pc = "summed"
    /\ \E mode \in {"wrap", "saturate"} : res' = AsTypeUint8(res, mode)
    /\ pc' = "narrowed"
    /\ UNCHANGED <<args, img, grid, files, glob, moire, call>>

\* lines 125-149: both images are written, under dest or to the two paths
WriteOutputs ==
    /\ pc = "narrowed"
    /\ \E where \in {"dest", "scan_dest_patt_dest"} :
        files' = <<[to |-> where, name |-> "scanimation", data |-> res],
                   [to |-> where, name |-> "pattern", data |-> PatternImage(grid)]>>
    /\ pc' = "returned_finished"
    /\ UNCHANGED <<args, img, grid, res, glob, moire, call>>

MainNext ==
    \/ ParseArgs
    \/ InvalidPath
    \/ NotGif
    \/ LoadGif
    \/ Stripe
    \/ RollGrids
    \/ AlphaGrid
    \/ Composite
    \/ Narrow
    \/ WriteOutputs

(***************************************************************************)
(* The __main__ script of scanimate/moire.py, second example: the same     *)
(* steps with the control parameters of the script (stripe_width = 1,      *)
(* column stripes, every other frame of the GIF).                          *)
(***************************************************************************)
\* lines 106, 145-152
ScriptLoad ==
    /\ pc = "start"
    /\ \E gif \in Gifs :
        /\ img' = Subsample(gif, ScriptDownsample)
        /\ grid' = ZerosLike(Subsample(gif, ScriptDownsample))
    /\ args' = [pattern |-> "hgrid", stripewidth |-> ScriptStripeWidth,
                paths_exist |-> TRUE, single_gif |-> TRUE]
    /\ pc' = "script_loaded"
    /\ UNCHANGED <<res, files, glob, moire, call>>

\* lines 160-161
ScriptStripe ==
    /\ pc = "script_loaded"
    /\ grid' = StripeLoop(grid, "hgrid", 0, args.stripewidth, Size(img))
    /\ pc' = "script_striped"
    /\ UNCHANGED <<args, img, res, files, glob, moire, call>>

\* line 166
ScriptAlpha ==
    /\ pc = "script_striped"
    /\ grid' = SetLastChannel(grid)
    /\ pc' = "script_alpha"
    /\ UNCHANGED <<args, img, res, files, glob, moire, call>>

\* lines 169-170
ScriptRoll ==
    /\ pc = "script_alpha"
    /\ grid' = RollLoop(grid, "hgrid", args.stripewidth)
    /\ pc' = "script_grid_done"
    /\ UNCHANGED <<args, img, res, files, glob, moire, call>>

\* lines 173-177
ScriptComposite ==
    /\ pc = "script_grid_done"
    /\ res' = ForceAlpha(SumFrames(Multiply(img, grid)))
    /\ pc' = "script_summed"
    /\ UNCHANGED <<args, img, grid, files, glob, moire, call>>

\* line 178
ScriptNarrow ==
    /\ pc = "script_summed"
    /\ \E mode \in {"wrap", "saturate"} : res' = AsTypeUint8(res, mode)
    /\ pc' = "script_narrowed"
    /\ UNCHANGED <<args, img, grid, files, glob, moire, call>>

\* lines 200-201
ScriptWrite ==
    /\ pc = "script_narrowed"
    /\ files' = <<[to |-> "images", name |-> "michael_scanimation", data |-> res],
                  [to |-> "images", name |-> "michael_scanimation_grid",
                   data |-> PatternImage(grid)]>>
    /\ pc' = "script_finished"
    /\ UNCHANGED <<args, img, grid, res, glob, moire, call>>

ScriptNext ==
    \/ ScriptLoad
    \/ ScriptStripe
    \/ ScriptAlpha
    \/ ScriptRoll
    \/ ScriptComposite
    \/ ScriptNarrow
    \/ ScriptWrite

Next == MainNext \/ ScriptNext

Spec == Init /\ [][Next]_vars

(***************************************************************************)
(* class Moire, scanimate/moire.py and core/moire.py                       *)
(***************************************************************************)
\* The module's global namespace, where __call__ looks up the bare name
\* num_frames: the name is unbound in the imported module, and bound by the
\* __main__ script when the file was run as a script.
ModuleGlobals ==
    {[bound |-> FALSE, num_frames |-> 0],
     [bound |-> TRUE, num_frames |-> ScriptNumFrames],
     [bound |-> TRUE, num_frames |-> CoreScriptNumFrames]}

InitMoire ==
    /\ pc = "moire"
    /\ args = [pattern |-> "hgrid", stripewidth |-> 1,
               paths_exist |-> TRUE, single_gif |-> TRUE]
    /\ img = << >>
    /\ grid = << >>
    /\ res = << >>
    /\ files = << >>
    /\ glob \in ModuleGlobals
    /\ moire = [state |-> "none"]
    /\ call = [len |-> 0, result |-> "none"]

\* make_grid: a square of zeros whose rows 0::num_frames are set to 1
MakeGrid(m) ==
    LET size == m.stripe_width * m.num_frames * m.replications
    IN  [m EXCEPT !.grid =
            [r \in Idx(size) |-> [c \in Idx(size) |->
                IF InSlice(r, 0, m.num_frames, size) THEN 1 ELSE 0]]]

\* __init__
NewMoire(pattern, stripe_width, num_frames) ==
    MakeGrid([state |-> "object", pattern |-> pattern, stripe_width |-> stripe_width,
              num_frames |-> num_frames, replications |-> DefaultReplications,
              grid |-> << >>])

\* __call__: the test reads the global name num_frames, not self._num_frames
CallResult(m, g, n) ==
    IF ~g.bound
    THEN "NameError"
    ELSE IF ~(n = g.num_frames) THEN "ValueError" ELSE "returned"

Construct ==
    /\ moire.state = "none"
    /\ \E p \in {"hgrid", "vgrid"}, sw \in 1..MaxMoireStripe, n \in 1..MaxMoireFrames :
        moire' = NewMoire(p, sw, n)
    /\ UNCHANGED <<pc, args, img, grid, res, files, glob, call>>

\* moire(arr) for a stack arr of n frames
Call ==
    /\ moire.state = "object"
    /\ \E n \in 0..MaxStackLen :
        call' = [len |-> n, result |-> CallResult(moire, glob, n)]
    /\ UNCHANGED <<pc, args, img, grid, res, files, glob, moire>>

\* moire.replications = val
SetReplications ==
    /\ moire.state = "object"
    /\ \E val \in 1..MaxReplications :
        moire' = [moire EXCEPT !.replications = val]
    /\ UNCHANGED <<pc, args, img, grid, res, files, glob, call>>

\* moire.make_grid()
CallMakeGrid ==
    /\ moire.state = "object"
    /\ moire' = MakeGrid(moire)
    /\ UNCHANGED <<pc, args, img, grid, res, files, glob, call>>

MoireNext ==
    \/ Construct
    \/ Call
    \/ SetReplications
    \/ CallMakeGrid

SpecMoire == InitMoire /\ [][MoireNext]_vars

(***************************************************************************)
(* Properties of main()                                                    *)
(***************************************************************************)
NumFrames == Size(img)
Height == Size(img[0])
Width == Size(img[0][0])
NumChannels == Size(img[0][0][0])

\* main() is past line 95 (the script past line 170): the N phase grids are
\* built
GridBuilt ==
    pc \in {"grid_done", "summed", "narrowed", "returned_finished",
            "script_grid_done", "script_summed", "script_narrowed", "script_finished"}

\* main() is past line 103 (the script past line 178): the composite is
\* narrowed to 8 bits
CompositeBuilt ==
    pc \in {"narrowed", "returned_finished", "script_narrowed", "script_finished"}

Written == pc \in {"returned_finished", "script_finished"}

Striped == args.pattern \in {"hgrid", "vgrid"}

StripeAxisLen == IF args.pattern = "hgrid" THEN Width ELSE Height

\* stripe_width*N divides the length of the striping axis
PeriodDivides ==
    /\ Striped
    /\ args.stripewidth >= 1
    /\ StripeAxisLen % (args.stripewidth * NumFrames) = 0

GridSum(r, c, ch) == SumUpTo(grid, NumFrames - 1, r, c, ch)

MaskedSum(r, c, ch) == SumUpTo(Multiply(img, grid), NumFrames - 1, r, c, ch)

PairwiseDistinctFrames ==
    \A k \in DOMAIN img, j \in DOMAIN img :
        k # j => img[k][0][0][0] # img[j][0][0][0]

\* C1 as stated: when stripe_width*N divides the striping axis, the N phase
\* grids sum to 1 at every element of the grid array.
C1_PartitionEveryElement ==
    (GridBuilt /\ PeriodDivides) =>
        \A r \in Idx(Height), c \in Idx(Width), ch \in Idx(NumChannels) :
            GridSum(r, c, ch) = 1

\* C1 amended: when stripe_width*N divides the striping axis, the N phase
\* grids sum to 1 at every element of every channel but the last, and to N
\* in the last channel, which line 95 sets to 1 in every grid.
C1_Partition ==
    (GridBuilt /\ PeriodDivides) =>
        \A r \in Idx(Height), c \in Idx(Width), ch \in Idx(NumChannels) :
            GridSum(r, c, ch) = IF ch = NumChannels - 1 THEN NumFrames ELSE 1

C1_Witness ==
    /\ GridBuilt
    /\ PeriodDivides
    /\ NumFrames = 2
    /\ args.stripewidth = 2
    /\ NumChannels = 3

\* C2 as stated: for every frame stack and stripe width, no element of the
\* grid array is 1 in two grids of distinct phases.
C2_DisjointEveryElement ==
    GridBuilt =>
        \A k \in Idx(NumFrames), j \in Idx(NumFrames) :
            k # j =>
                \A r \in Idx(Height), c \in Idx(Width), ch \in Idx(NumChannels) :
                    ~(grid[k][r][c][ch] = 1 /\ grid[j][r][c][ch] = 1)

\* C2 amended: when stripe_width*N divides the striping axis, no element
\* outside the last channel is 1 in two grids of distinct phases.
C2_Disjoint ==
    (GridBuilt /\ PeriodDivides) =>
        \A k \in Idx(NumFrames), j \in Idx(NumFrames) :
            k # j =>
                \A r \in Idx(Height), c \in Idx(Width), ch \in Idx(NumChannels - 1) :
                    ~(grid[k][r][c][ch] = 1 /\ grid[j][r][c][ch] = 1)

C2_Witness ==
    /\ GridBuilt
    /\ PeriodDivides
    /\ args.pattern = "vgrid"
    /\ NumFrames = 3
    /\ NumChannels = 4
    /\ \E r \in Idx(Height) : grid[1][r][0][0] = 1

\* C3 as stated: with constant, pairwise distinct frames the composite
\* equals one of the frame values at every pixel.
C3_RecoverEveryPixel ==
    (CompositeBuilt /\ PairwiseDistinctFrames) =>
        \A r \in Idx(Height), c \in Idx(Width), ch \in Idx(NumChannels) :
            \E k \in Idx(NumFrames) : res[r][c][ch] = img[k][r][c][ch]

\* C3 amended: with constant, pairwise distinct frames and stripe_width*N
\* dividing the striping axis, every element of the composite outside the
\* last channel equals the value of the one frame whose grid is 1 there;
\* the last channel is 255.
C3_Recover ==
    (CompositeBuilt /\ PairwiseDistinctFrames /\ PeriodDivides) =>
        \A r \in Idx(Height), c \in Idx(Width), ch \in Idx(NumChannels) :
            IF ch = NumChannels - 1
            THEN res[r][c][ch] = Opaque
            ELSE \E k \in Idx(NumFrames) :
                    /\ res[r][c][ch] = img[k][r][c][ch]
                    /\ grid[k][r][c][ch] = 1
                    /\ \A j \in Idx(NumFrames) : j # k => grid[j][r][c][ch] = 0

C3_Witness ==
    /\ CompositeBuilt
    /\ PairwiseDistinctFrames
    /\ PeriodDivides
    /\ NumFrames = 3
    /\ NumChannels = 3
    /\ res[0][0][0] # res[0][1][0]

\* C4: the 12x12, one-channel, three-frame example with stripe width 1 and
\* hgrid: grid k is 1 exactly at the columns c with c mod 3 = k, and the
\* composite of the frames 10, 20, 30 is 10*(1 + c mod 3) at column c.
C4_Example ==
    (CompositeBuilt /\ img = ExampleStack /\ args.pattern = "hgrid"
        /\ args.stripewidth = 1) =>
        \A r \in Idx(12), c \in Idx(12) :
            /\ \A k \in Idx(3) : grid[k][r][c][0] = IF c % 3 = k THEN 1 ELSE 0
            /\ res[r][c][0] = 10 * (1 + (c % 3))

\* C5: with 4 channels the alpha of every pixel is 255 in the composite and
\* in the exported phase-0 mask, whatever the input alpha, the pattern and
\* the stripe width.
C5_AlphaOpaque ==
    (CompositeBuilt /\ NumChannels = 4) =>
        /\ \A r \in Idx(Height), c \in Idx(Width) : res[r][c][3] = Opaque
        /\ Written =>
                \A i \in DOMAIN files :
                    \A r \in Idx(Height), c \in Idx(Width) :
                        files[i].data[r][c][3] = Opaque

C5_Witness ==
    /\ pc = "returned_finished"
    /\ NumChannels = 4
    /\ args.pattern = "vgrid"
    /\ args.stripewidth = 2
    /\ img[0][0][0][3] # Opaque
    /\ \E r \in Idx(Height) : files[2].data[r][0][0] = 0

C8_MissingPath ==
    (pc # "start" /\ ~args.paths_exist) =>
        /\ pc \notin {"returned_invalid_path", "returned_not_gif", "returned_finished"}
        /\ files = << >>

\* C9: every value of the 8-bit composite outside the last channel is
\* min(255, sum over k of frame_k*grid_k); a sum above 255 never wraps.
C9_Clamped ==
    CompositeBuilt =>
        \A r \in Idx(Height), c \in Idx(Width), ch \in Idx(NumChannels - 1) :
            res[r][c][ch] =
                IF MaskedSum(r, c, ch) > Opaque THEN Opaque ELSE MaskedSum(r, c, ch)

\* the grids main() builds for a stack of n frames of h rows, w columns and
\* c channels (lines 69-95)
MainGrids(pattern, stripewidth, n, h, w, c) ==
    SetLastChannel(
        RollLoop(
            StripeLoop(ZerosLike(ConstStack(n, h, w, c, [k \in Idx(n) |-> 0])),
                       pattern, 0, stripewidth, n),
            pattern, stripewidth))

\* every grid of the stack with its rows and columns exchanged
Transposed(g) ==
    [k \in DOMAIN g |-> [r \in DOMAIN g[k][0] |-> [c \in DOMAIN g[k] |-> g[k][c][r]]]]

\* C10: the hgrid phase-k grid for frames of height h and width w,
\* transposed over rows and columns, is the vgrid phase-k grid for frames of
\* height w and width h (and the other way round).
C10_OrientationSymmetry ==
    (GridBuilt /\ Striped) =>
        LET other == IF args.pattern = "hgrid" THEN "vgrid" ELSE "hgrid"
        IN  grid = Transposed(MainGrids(other, args.stripewidth, NumFrames, Width,
                                        Height, NumChannels))

C10_Witness ==
    /\ GridBuilt
    /\ args.pattern = "hgrid"
    /\ args.stripewidth = 2
    /\ NumFrames = 2
    /\ Height = 2
    /\ Width = 4
    /\ NumChannels = 3
    /\ grid[1][0][2][0] = 1
    /\ grid[1][0][0][0] = 0

\* the striping coordinate of the pixel at row r, column c
StripeCoord(r, c) == IF args.pattern = "hgrid" THEN c ELSE r

\* the phase rule: 1 when coordinate x is visible in the grid of phase k
PhaseRule(x, k) ==
    IF ((x - k * args.stripewidth) % (args.stripewidth * NumFrames)) < args.stripewidth
    THEN 1
    ELSE 0

StripedGrids ==
    RollLoop(StripeLoop(ZerosLike(img), args.pattern, 0, args.stripewidth, NumFrames),
             args.pattern, args.stripewidth)

\* C13: for a stack of 3 channels no channel is treated as alpha: every
\* channel of every phase grid follows the stripe occlusion test, and every
\* channel of the composite is the 8-bit masked sum of the frames, none
\* forced to 255.
C13_NoAlphaWithoutAlpha ==
    (GridBuilt /\ Striped /\ args.stripewidth >= 1 /\ NumChannels = 3) =>
        /\ grid = StripedGrids
        /\ CompositeBuilt =>
                \E mode \in {"wrap", "saturate"} :
                    res = AsTypeUint8(SumFrames(Multiply(img, StripedGrids)), mode)

\* C14: for every length of the striping axis, stripe width >= 1 and frame
\* count, also when stripe_width*N does not divide the length, every
\* position of every channel is 1 in at least one of the N phase grids, in
\* the grids the stripe and roll loops leave and in the finished grids.
C14_NoGaps ==
    ((pc = "rolled" \/ GridBuilt) /\ Striped /\ args.stripewidth >= 1) =>
        \A r \in Idx(Height), c \in Idx(Width), ch \in Idx(NumChannels) :
            \E k \in Idx(NumFrames) : grid[k][r][c][ch] = 1

C14_Witness ==
    /\ pc = "rolled"
    /\ args.pattern = "hgrid"
    /\ args.stripewidth = 2
    /\ NumFrames = 3
    /\ Width = 4
    /\ NumChannels = 3
    /\ ~PeriodDivides
    /\ grid[0][0][0][0] = 1
    /\ grid[2][0][0][0] = 1
    /\ grid[1][0][0][0] = 0

(***************************************************************************)
(* Properties of Moire                                                     *)
(***************************************************************************)
\* C6: applying a Moire built with num_frames = N raises the frame-count
\* error when the stack's length differs from N and accepts a stack of
\* length N.
C6_FrameCountValidation ==
    (call.result # "none") =>
        call.result = IF call.len = moire.num_frames THEN "returned" ELSE "ValueError"

\* C12: the grid make_grid builds is a 0/1 array whose pixels at striping
\* coordinate r are 1 exactly when r mod (stripe_width*num_frames) <
\* stripe_width: visible bands stripe_width thick, period
\* stripe_width*num_frames.
C12_MakeGridStripeRule ==
    (moire.state = "object") =>
        moire.grid =
            [r \in DOMAIN moire.grid |-> [c \in DOMAIN moire.grid[r] |->
                IF (r % (moire.stripe_width * moire.num_frames)) < moire.stripe_width
                THEN 1
                ELSE 0]]

\* C15: after construction and after any sequence of assignments to
\* replications, the side length of the grid is stripe_width * num_frames *
\* replications for the current value of replications.
C15_GridNeverStale ==
    (moire.state = "object") =>
        /\ Size(moire.grid) = moire.stripe_width * moire.num_frames * moire.replications
        /\ \A r \in DOMAIN moire.grid : Size(moire.grid[r]) = Size(moire.grid)

====
